---- MODULE Spec2Model ----
(***************************************************************************)
(* saas_plan_enforcer: the plan-limits resolver (saas.plan.manager) and    *)
(* the enforcement hooks layered on res.users, mail.mail, ir.attachment,   *)
(* ir.config_parameter and ir.module.module.                               *)
(***************************************************************************)
EXTENDS Integers, Sequences, FiniteSets, Bags, TLC

VARIABLES
    cacheRows,  \* table saas.plan.manager, in id order
    today,      \* fields.Date.today() / fields.Datetime.now(), in days
    params,     \* table ir.config_parameter: key -> value (strings)
    users,      \* table res.users: a bag of rows [login, active, share]
    mails,      \* number of mail.mail rows created
    attachments,\* file sizes of the ir.attachment rows created
    installed,  \* technical names of the installed modules
    companies,  \* table res.company: a set of rows [name, active]
    performed,  \* what the operational endpoints have run on the host
    inflight,   \* the get_plan_limits calls running in open transactions
    last        \* the last operation: its inputs and its outcome

vars == <<cacheRows, today, params, users, mails, attachments, installed, companies,
         performed, inflight, last>>

(***************************************************************************)
(* Bounds of the model.                                                    *)
(***************************************************************************)
MaxDay == 2

(***************************************************************************)
(* Python values: None and dict.  A dict is a function from its keys.      *)
(***************************************************************************)
PyNone == [t |-> "None"]

PyDict(d) == [t |-> "dict", d |-> d]

EmptyDict == PyDict(<<>>)

IsDict(v) == v.t = "dict"

\* bool(v): None and the empty dict are falsy
Truthy(v) == IsDict(v) /\ DOMAIN v.d # {}

\* v.get(key, default) on a dict
Get(v, key, default) == IF key \in DOMAIN v.d THEN v.d[key] ELSE default

(***************************************************************************)
(* json.dumps / json.loads.  A JSON text is modelled by its structure: the *)
(* literal null, an object with its members in writing order, or text that *)
(* is no JSON at all.  An unset Text field reads as False.                 *)
(***************************************************************************)
KeyOrder == <<"max_users", "max_companies", "max_file_size_mb",
              "max_external_emails_per_day", "blocked_modules">>

RECURSIVE Members(_, _)
Members(d, i) ==
    IF i > Len(KeyOrder) THEN <<>>
    ELSE (IF KeyOrder[i] \in DOMAIN d THEN << <<KeyOrder[i], d[KeyOrder[i]]>> >> ELSE <<>>)
         \o Members(d, i + 1)

Dumps(v) ==
    IF IsDict(v) THEN [kind |-> "object", members |-> Members(v.d, 1)]
    ELSE [kind |-> "null"]

GarbageText == [kind |-> "garbage"]

FieldUnset == [kind |-> "False"]

\* the value of the last member named k
RECURSIVE MemberValue(_, _, _)
MemberValue(ms, k, i) ==
    IF ms[i][1] = k THEN ms[i][2] ELSE MemberValue(ms, k, i - 1)

\* json.loads: ok = FALSE stands for JSONDecodeError
Loads(text) ==
    CASE text.kind = "object" ->
            [ok |-> TRUE,
             val |-> PyDict([k \in {text.members[i][1] : i \in 1..Len(text.members)} |->
                                MemberValue(text.members, k, Len(text.members))])]
      [] text.kind = "null" -> [ok |-> TRUE, val |-> PyNone]
      [] OTHER -> [ok |-> FALSE, val |-> PyNone]

(***************************************************************************)
(* saas.plan.manager                                                       *)
(***************************************************************************)
_get_emergency_limits ==
    PyDict([max_users |-> 3,
            max_companies |-> 1,
            max_file_size_mb |-> 10,
            blocked_modules |-> <<"stock", "stock_*", "purchase", "purchase_*",
                                  "mrp", "mrp_*", "hr", "hr_*",
                                  "account_accountant", "mass_mailing*",
                                  "marketing_automation*">>])

\* self.search([], limit=1): the first row, or the empty recordset
SearchCache(rows) == IF rows = <<>> THEN <<>> ELSE <<rows[1]>>

\* _update_cache creating a row on every call instead of overwriting the first
_update_cache_AlwaysCreates(rows, limits, plan_name, now, writeOk) ==
    IF ~writeOk THEN rows
    ELSE Append(rows, [last_sync |-> now,
                       cached_limits |-> Dumps(limits),
                       cached_plan_name |-> plan_name])

\* _update_cache; writeOk = FALSE: search/write/create raised, which is logged
_update_cache(rows, limits, plan_name, now, writeOk) ==
    LET cache_vals == [last_sync |-> now,
                       cached_limits |-> Dumps(limits),
                       cached_plan_name |-> plan_name]
    IN  IF ~writeOk THEN rows
        ELSE IF SearchCache(rows) # <<>>
             THEN [rows EXCEPT ![1] = cache_vals]
             ELSE Append(rows, cache_vals)

\* dict.get on the response envelope (a record whose fields are its keys)
EnvGet(e, key, default) == IF key \in DOMAIN e THEN e[key] ELSE default

\* _fetch_limits_from_server: the value returned, the cache table afterwards
\* and the number of requests.post calls made (the call of line 69 is reached
\* on every path and nothing repeats it)
_fetch_limits_from_server(rows, resp, now, writeOk) ==
    IF "raises" \in DOMAIN resp
    THEN [ret |-> _get_emergency_limits, rows |-> rows, posts |-> 1]
    ELSE IF resp.status_code = 200
         THEN IF "json" \notin DOMAIN resp
              THEN [ret |-> _get_emergency_limits, rows |-> rows, posts |-> 1]
              ELSE LET data == resp.json
                       result == EnvGet(data, "result", data)
                   IN  IF EnvGet(result, "success", FALSE)
                       THEN LET limits == EnvGet(result, "limits", EmptyDict)
                            IN  [ret |-> limits,
                                 rows |-> _update_cache(rows, limits,
                                              EnvGet(result, "plan_name", "Unknown"),
                                              now, writeOk),
                                 posts |-> 1]
                       ELSE [ret |-> EnvGet(result, "limits", _get_emergency_limits),
                             rows |-> rows, posts |-> 1]
         ELSE [ret |-> _get_emergency_limits, rows |-> rows, posts |-> 1]

\* the test of line 38: limits and limits.get('max_users', -1) > 0
ValidLimits(limits) == Truthy(limits) /\ Get(limits, "max_users", -1) > 0

\* get_plan_limits ending with "return limits" instead of the emergency limits
get_plan_limits_ReturnsFetched(rows, resp, now, writeOk) ==
    LET f == _fetch_limits_from_server(rows, resp, now, writeOk)
        cache == SearchCache(f.rows)
    IN  IF ValidLimits(f.ret)
        THEN f
        ELSE IF cache # <<>> /\ cache[1].cached_limits.kind # "False"
                /\ Loads(cache[1].cached_limits).ok
             THEN [ret |-> Loads(cache[1].cached_limits).val, rows |-> f.rows,
                   posts |-> f.posts]
             ELSE f

\* get_plan_limits answering from a cache row written today without asking the server
get_plan_limits_CacheFirst(rows, resp, now, writeOk) ==
    LET f == _fetch_limits_from_server(rows, resp, now, writeOk)
        cache == SearchCache(rows)
    IN  IF cache # <<>> /\ cache[1].last_sync = now
           /\ cache[1].cached_limits.kind # "False" /\ Loads(cache[1].cached_limits).ok
        THEN [ret |-> Loads(cache[1].cached_limits).val, rows |-> rows, posts |-> 0]
        ELSE IF ValidLimits(f.ret) THEN f
        ELSE [ret |-> _get_emergency_limits, rows |-> f.rows, posts |-> f.posts]

\* get_plan_limits: the value returned and the cache table afterwards
get_plan_limits(rows, resp, now, writeOk) ==
    LET f == _fetch_limits_from_server(rows, resp, now, writeOk)
        cache == SearchCache(f.rows)
    IN  IF ValidLimits(f.ret)
        THEN f
        ELSE IF cache # <<>> /\ cache[1].cached_limits.kind # "False"
                /\ Loads(cache[1].cached_limits).ok
             THEN [ret |-> Loads(cache[1].cached_limits).val, rows |-> f.rows,
                   posts |-> f.posts]
             ELSE [ret |-> _get_emergency_limits, rows |-> f.rows, posts |-> f.posts]

(***************************************************************************)
(* What the licensing server may answer.                                   *)
(***************************************************************************)
PlanBasic ==
    PyDict([max_users |-> 2, max_companies |-> 1, max_file_size_mb |-> 5,
            max_external_emails_per_day |-> 2, blocked_modules |-> <<"stock*">>])

PlanUnlimited ==
    PyDict([max_users |-> -1, max_companies |-> -1, max_file_size_mb |-> -1,
            max_external_emails_per_day |-> -1, blocked_modules |-> <<>>])

PlanNoUserCap ==
    PyDict([max_companies |-> 2, max_file_size_mb |-> 20,
            max_external_emails_per_day |-> 3, blocked_modules |-> <<"hr", "hr_*">>])

PlanSuspended ==
    PyDict([max_users |-> 1, max_companies |-> 1, max_file_size_mb |-> 1,
            max_external_emails_per_day |-> 1, blocked_modules |-> <<"stock*">>])

ServerLimits == {PlanBasic, PlanUnlimited, PlanNoUserCap, PlanSuspended, EmptyDict, PyNone}

Envelopes ==
       {[success |-> TRUE, limits |-> l, plan_name |-> "Pro"] : l \in ServerLimits}
  \cup {[success |-> TRUE, limits |-> PlanBasic], [success |-> TRUE, plan_name |-> "Pro"]}
  \cup {[success |-> FALSE, error |-> "expired", limits |-> l] : l \in ServerLimits}
  \cup {[success |-> FALSE, error |-> "unknown db"], [error |-> "bad request"]}

Responses ==
       {[raises |-> "RequestException"], [status_code |-> 500], [status_code |-> 200]}
  \cup {[status_code |-> 200, json |-> e] : e \in Envelopes}
  \cup {[status_code |-> 200, json |-> [jsonrpc |-> "2.0", result |-> e]] : e \in Envelopes}

(***************************************************************************)
(* Operations on saas.plan.manager                                         *)
(***************************************************************************)
Others == <<params, users, mails, attachments, installed, companies, performed, inflight>>

\* action_refresh_limits (force_refresh = True) / a direct call of
\* get_plan_limits; the body never reads force_refresh
GetPlanLimits ==
    \E resp \in Responses, writeOk \in BOOLEAN, force_refresh \in BOOLEAN :
        LET r == get_plan_limits(cacheRows, resp, today, writeOk)
        IN  /\ cacheRows' = r.rows
            /\ last' = [op |-> "get_plan_limits", resp |-> resp, writeOk |-> writeOk,
                        force_refresh |-> force_refresh, ret |-> r.ret,
                        posts |-> r.posts]
            /\ UNCHANGED <<today, Others>>

\* an ORM write on the cache row by the superuser (the fields are readonly in views only)
CacheRowWrite ==
    /\ cacheRows # <<>>
    /\ \E text \in {GarbageText, FieldUnset} :
        /\ cacheRows' = [cacheRows EXCEPT ![1].cached_limits = text]
        /\ last' = [op |-> "cache_write"]
    /\ UNCHANGED <<today, Others>>

\* midnight
NextDay ==
    /\ today < MaxDay
    /\ today' = today + 1
    /\ last' = [op |-> "next_day"]
    /\ UNCHANGED <<cacheRows, Others>>

Init ==
    /\ cacheRows = <<>>
    /\ today = 1
    /\ params = <<>>
    /\ users = <<>>
    /\ mails = 0
    /\ attachments = {}
    /\ installed = {"base", "mail", "saas_plan_enforcer"}
    /\ companies = {[name |-> "Main", active |-> TRUE]}
    /\ performed = {}
    /\ inflight = <<>>
    /\ last = [op |-> "init"]

NextResolver == GetPlanLimits \/ CacheRowWrite \/ NextDay

SpecResolver == Init /\ [][NextResolver]_vars

(***************************************************************************)
(* Properties of the resolver                                              *)
(***************************************************************************)
\* the envelope of a response with status 200 and a JSON body (line 81)
Envelope(resp) == EnvGet(resp.json, "result", resp.json)

\* the live fetch succeeded: status 200 and success = true
FetchSucceeded(resp) ==
    /\ "status_code" \in DOMAIN resp
    /\ resp.status_code = 200
    /\ "json" \in DOMAIN resp
    /\ EnvGet(Envelope(resp), "success", FALSE)

FetchFailed(resp) == ~FetchSucceeded(resp)

\* the limits a successful response carries
SentLimits(resp) == EnvGet(Envelope(resp), "limits", EmptyDict)

\* a cache row with deserializable cached_limits exists
UsableCache(rows) ==
    /\ rows # <<>>
    /\ rows[1].cached_limits.kind # "False"
    /\ Loads(rows[1].cached_limits).ok

\* the failure is an error envelope that carries limits with max_users > 0
ErrorEnvelopeWithLimits(resp) ==
    /\ "json" \in DOMAIN resp
    /\ resp.status_code = 200
    /\ "limits" \in DOMAIN Envelope(resp)
    /\ ValidLimits(Envelope(resp).limits)

EmergencyConstant ==
    PyDict([max_users |-> 3, max_companies |-> 1, max_file_size_mb |-> 10,
            blocked_modules |-> <<"stock", "stock_*", "purchase", "purchase_*",
                                  "mrp", "mrp_*", "hr", "hr_*",
                                  "account_accountant", "mass_mailing*",
                                  "marketing_automation*">>])

\* C1: whenever the live fetch fails and a cache row with deserializable
\* cached_limits exists, get_plan_limits returns exactly the cached limits.
\* (A failed fetch leaves the table as it was, so the row read is the row kept.)
C1_FailedFetchReturnsCache ==
    (last.op = "get_plan_limits" /\ FetchFailed(last.resp) /\ UsableCache(cacheRows))
        => last.ret = Loads(cacheRows[1].cached_limits).val

\* C2 as claimed: whenever the live fetch fails and no usable cache exists,
\* get_plan_limits returns exactly the emergency constant.
C2_FailedFetchNoCacheReturnsEmergency ==
    (last.op = "get_plan_limits" /\ FetchFailed(last.resp) /\ ~UsableCache(cacheRows))
        => last.ret = EmergencyConstant

\* C2 amended: when the live fetch fails and no usable cache exists,
\* get_plan_limits returns exactly the emergency constant, unless the failure is
\* a success=false envelope carrying limits with max_users > 0: those limits
\* are returned as sent.
C2_EmergencyUnlessErrorEnvelopeLimits ==
    (last.op = "get_plan_limits" /\ FetchFailed(last.resp) /\ ~UsableCache(cacheRows))
        => IF ErrorEnvelopeWithLimits(last.resp)
           THEN last.ret = Envelope(last.resp).limits
           ELSE last.ret = EmergencyConstant

\* C2 witness: an error envelope without valid limits met a corrupted cache
\* row, and the emergency constant came back
C2_Witness ==
    /\ last.op = "get_plan_limits"
    /\ FetchFailed(last.resp)
    /\ "json" \in DOMAIN last.resp
    /\ "limits" \in DOMAIN Envelope(last.resp)
    /\ cacheRows # <<>>
    /\ cacheRows[1].cached_limits = GarbageText
    /\ last.ret = EmergencyConstant

\* C3: whenever the live fetch succeeds, get_plan_limits returns exactly the
\* limits object the server sent (max_users = -1 and a missing max_users
\* included), whether or not the cache write succeeded.
C3_SuccessReturnsServerLimits ==
    (last.op = "get_plan_limits" /\ FetchSucceeded(last.resp)
        /\ "limits" \in DOMAIN Envelope(last.resp)
        /\ Truthy(SentLimits(last.resp)))
        => last.ret = SentLimits(last.resp)

\* the table after a get_plan_limits step whose fetch succeeded holds, in its
\* first row, the limits and the plan name of that fetch
HoldsFetch(rows, resp) ==
    /\ rows # <<>>
    /\ rows[1].cached_limits = Dumps(SentLimits(resp))
    /\ rows[1].cached_plan_name = EnvGet(Envelope(resp), "plan_name", "Unknown")

\* C4 as claimed: once the row exists, every get_plan_limits call with a
\* successful fetch leaves the row holding that fetch, every call with a failed
\* fetch leaves the table unchanged, and no call removes the row.
C4_CacheHoldsLastSuccessfulFetch ==
    [][(last'.op = "get_plan_limits" /\ cacheRows # <<>>) =>
          /\ Len(cacheRows') >= Len(cacheRows)
          /\ IF FetchSucceeded(last'.resp)
             THEN HoldsFetch(cacheRows', last'.resp)
             ELSE cacheRows' = cacheRows]_vars

\* C4 amended: the row holds the limits and plan name of the most recent
\* successful fetch whose cache write succeeded: such a fetch overwrites it; a
\* failed fetch, and a successful fetch whose cache write raised (which is only
\* logged), leave the table unchanged; no call removes the row.
C4_CacheHoldsLastStoredFetch ==
    [][last'.op = "get_plan_limits" =>
          /\ Len(cacheRows') >= Len(cacheRows)
          /\ IF FetchSucceeded(last'.resp) /\ last'.writeOk
             THEN HoldsFetch(cacheRows', last'.resp)
             ELSE cacheRows' = cacheRows]_vars

\* C4 witness: a failed fetch on a later day left the row of an earlier
\* successful fetch in place
C4_Witness ==
    /\ last.op = "get_plan_limits"
    /\ FetchFailed(last.resp)
    /\ cacheRows # <<>>
    /\ cacheRows[1].cached_limits = Dumps(PlanBasic)
    /\ cacheRows[1].cached_plan_name = "Pro"
    /\ cacheRows[1].last_sync < today

C28_AlwaysReturnsLimits ==
    last.op = "get_plan_limits" => IsDict(last.ret)

(***************************************************************************)
(* get_plan_limits in concurrent requests.  Each request runs in its own   *)
(* transaction (REPEATABLE READ): it reads the table as committed when it  *)
(* began, and its writes reach the table when it commits.  Two inserts     *)
(* never conflict; an update of a row another transaction has changed      *)
(* since fails, is logged by _update_cache, and changes nothing.           *)
(***************************************************************************)
MaxRequests == 2

ConcurrentResponses ==
       {[raises |-> "RequestException"]}
  \cup {[status_code |-> 200, json |-> [success |-> TRUE, limits |-> l, plan_name |-> "Pro"]] :
            l \in {PlanBasic, PlanSuspended}}

\* a request begins: its transaction sees the table as it is now
RequestBegin ==
    /\ Len(inflight) < MaxRequests
    /\ inflight' = Append(inflight, [seen |-> cacheRows])
    /\ last' = [op |-> "request_begin"]
    /\ UNCHANGED <<cacheRows, today, params, users, mails, attachments, installed,
                   companies, performed>>

\* the i-th open request runs get_plan_limits on what it sees and commits
RequestCommit ==
    \E i \in 1..Len(inflight), resp \in ConcurrentResponses :
        LET seen == inflight[i].seen
            r == get_plan_limits(seen, resp, today, TRUE)
        IN  /\ cacheRows' =
                  IF r.rows = seen THEN cacheRows
                  ELSE IF Len(r.rows) > Len(seen) THEN Append(cacheRows, r.rows[Len(r.rows)])
                  ELSE IF cacheRows[1] = seen[1] THEN [cacheRows EXCEPT ![1] = r.rows[1]]
                  ELSE cacheRows
            /\ inflight' = [j \in 1..(Len(inflight) - 1) |->
                               IF j < i THEN inflight[j] ELSE inflight[j + 1]]
            /\ last' = [op |-> "request_commit", resp |-> resp, ret |-> r.ret]
            /\ UNCHANGED <<today, params, users, mails, attachments, installed, companies,
                           performed>>

NextConcurrent == RequestBegin \/ RequestCommit \/ NextDay

SpecConcurrent == Init /\ [][NextConcurrent]_vars

\* C22: after any sequence and any interleaving of get_plan_limits calls,
\* several of them completing a successful fetch while the cache is still
\* empty included, the cache table holds at most one row.
C22_AtMostOneCacheRow == Len(cacheRows) <= 1

(***************************************************************************)
(* Strings: str(int), int(str), startswith                                 *)
(***************************************************************************)
DigitChars == <<"0", "1", "2", "3", "4", "5", "6", "7", "8", "9">>

CharAt(s, i) == SubSeq(s, i, i)

\* str(n)
RECURSIVE Str(_)
Str(n) ==
    IF n < 0 THEN "-" \o Str(-n)
    ELSE IF n < 10 THEN DigitChars[n + 1]
    ELSE Str(n \div 10) \o DigitChars[(n % 10) + 1]

IsDigit(c) == \E d \in 1..10 : DigitChars[d] = c

DigitValue(c) == (CHOOSE d \in 1..10 : DigitChars[d] = c) - 1

\* the value of the digits s[i..Len(s)] read after the value acc
RECURSIVE DigitsValue(_, _, _)
DigitsValue(s, i, acc) ==
    IF i > Len(s) THEN acc
    ELSE DigitsValue(s, i + 1, acc * 10 + DigitValue(CharAt(s, i)))

AllDigits(s, from) ==
    /\ from <= Len(s)
    /\ \A i \in from..Len(s) : IsDigit(CharAt(s, i))

\* int(s): ok = FALSE stands for ValueError
IntParse(s) ==
    IF Len(s) >= 1 /\ CharAt(s, 1) \in {"-", "+"}
    THEN IF AllDigits(s, 2)
         THEN [ok |-> TRUE,
               val |-> IF CharAt(s, 1) = "-" THEN -DigitsValue(s, 2, 0)
                       ELSE DigitsValue(s, 2, 0)]
         ELSE [ok |-> FALSE, val |-> 0]
    ELSE IF AllDigits(s, 1)
         THEN [ok |-> TRUE, val |-> DigitsValue(s, 1, 0)]
         ELSE [ok |-> FALSE, val |-> 0]

\* s.startswith(prefix)
StartsWith(s, prefix) ==
    Len(s) >= Len(prefix) /\ SubSeq(s, 1, Len(prefix)) = prefix

(***************************************************************************)
(* ir.config_parameter.  The table is a function from key to value; a      *)
(* recordset is a set of keys.  An operation yields the table afterwards   *)
(* and err: "" when it went through, "UserError" when the guard refused    *)
(* it, "IntegrityError" when the unique index on key did.                  *)
(***************************************************************************)
PROTECTED_PARAMS == {"saas.operations.secret", "saas.master.url",
                     "web.max_file_upload_size", "saas.plan.file_size_limit"}

\* the environment of a call: the user's login and what the context and the
\* call stack say about a module installation or data load going on
PlainContext ==
    [install_mode |-> FALSE, module |-> FALSE, install_filename |-> FALSE,
     init_frame |-> FALSE]

Contexts ==
    {PlainContext,
     [PlainContext EXCEPT !.install_mode = TRUE],
     [PlainContext EXCEPT !.module = TRUE],
     [PlainContext EXCEPT !.install_filename = TRUE],
     [PlainContext EXCEPT !.init_frame = TRUE]}

Logins == {"1028", "admin"}

Envs == {[login |-> l, context |-> c] : l \in Logins, c \in Contexts}

\* _check_admin_secret: TRUE when it returns True, FALSE when it raises UserError
_check_admin_secret(env) ==
    \/ env.login = "1028"
    \/ env.context.install_mode \/ env.context.module
    \/ env.context.install_filename
    \/ env.context.init_frame

\* the table with the keys of ks removed
Without(tbl, ks) == [k \in DOMAIN tbl \ ks |-> tbl[k]]

\* create(vals_list), each vals a record [key, value]
ConfigCreate(tbl, env, vals_list) ==
    LET keys == {vals_list[i].key : i \in 1..Len(vals_list)}
    IN  IF (\E i \in 1..Len(vals_list) : vals_list[i].key \in PROTECTED_PARAMS)
           /\ ~_check_admin_secret(env)
        THEN [err |-> "UserError", tbl |-> tbl]
        ELSE IF keys \cap DOMAIN tbl # {} \/ Cardinality(keys) # Len(vals_list)
        THEN [err |-> "IntegrityError", tbl |-> tbl]
        ELSE [err |-> "",
              tbl |-> [k \in DOMAIN tbl \cup keys |->
                          IF k \in DOMAIN tbl THEN tbl[k]
                          ELSE LET i == CHOOSE i \in 1..Len(vals_list) : vals_list[i].key = k
                               IN  vals_list[i].value]]

\* write(vals) on the records self; vals may set value, key or both
ConfigWrite(tbl, env, self, vals) ==
    LET valued == [k \in DOMAIN tbl |->
                      IF k \in self /\ "value" \in DOMAIN vals THEN vals.value ELSE tbl[k]]
    IN  IF (\E k \in self : k \in PROTECTED_PARAMS) /\ ~_check_admin_secret(env)
        THEN [err |-> "UserError", tbl |-> tbl]
        ELSE IF "key" \in DOMAIN vals /\ self # {}
        THEN IF Cardinality(self) > 1 \/ vals.key \in DOMAIN tbl \ self
             THEN [err |-> "IntegrityError", tbl |-> tbl]
             ELSE LET old == CHOOSE k \in self : TRUE
                  IN  [err |-> "",
                       tbl |-> [k \in (DOMAIN tbl \ self) \cup {vals.key} |->
                                   IF k = vals.key THEN valued[old] ELSE tbl[k]]]
        ELSE [err |-> "", tbl |-> valued]

\* unlink() on the records self
ConfigUnlink(tbl, env, self) ==
    IF (\E k \in self : k \in PROTECTED_PARAMS) /\ ~_check_admin_secret(env)
    THEN [err |-> "UserError", tbl |-> tbl]
    ELSE [err |-> "", tbl |-> Without(tbl, self)]

\* get_param(key, default)
get_param(tbl, key, default) == IF key \in DOMAIN tbl THEN tbl[key] ELSE default

\* set_param(key, value) with a string value: write when the row exists and
\* the value differs, create when there is no row
set_param(tbl, env, key, value) ==
    IF key \in DOMAIN tbl
    THEN IF tbl[key] # value
         THEN ConfigWrite(tbl, env, {key}, [value |-> value])
         ELSE [err |-> "", tbl |-> tbl]
    ELSE ConfigCreate(tbl, env, <<[key |-> key, value |-> value]>>)

(***************************************************************************)
(* Inputs of the guarded operations                                        *)
(***************************************************************************)
MaxBatch == 2

\* the sequences over S of length 1..n
SeqsUpTo(S, n) == UNION {[1..k -> S] : k \in 1..n}

\* what the licensing server answers while a guard runs
GuardResponses ==
       {[raises |-> "RequestException"]}
  \cup {[status_code |-> 200, json |-> [success |-> TRUE, limits |-> l, plan_name |-> "Pro"]] :
            l \in {PlanBasic, PlanSuspended, PlanUnlimited, PyNone}}

\* the cache write of a fetch made for a guard goes through
GuardWriteOk == {TRUE}

GuardEnvs ==
    {[login |-> "admin", context |-> PlainContext],
     [login |-> "1028", context |-> PlainContext],
     [login |-> "admin", context |-> [PlainContext EXCEPT !.install_mode = TRUE]]}

(***************************************************************************)
(* Operations on ir.config_parameter                                       *)
(***************************************************************************)
ParamKeys == {"saas.plan.file_size_limit", "x.note"}

ParamValues == {"5", "http://mirror"}

ParamVals == {[key |-> k, value |-> v] : k \in ParamKeys, v \in ParamValues}

WriteVals ==
       {[value |-> v] : v \in ParamValues}
  \cup {[key |-> k] : k \in ParamKeys \cup {"saas.master.url"}}

ParamCreate ==
    \E env \in Envs, vals_list \in SeqsUpTo(ParamVals, MaxBatch) :
        LET r == ConfigCreate(params, env, vals_list)
        IN  /\ params' = r.tbl
            /\ last' = [op |-> "config_create", env |-> env, err |-> r.err]
            /\ UNCHANGED <<cacheRows, today, users, mails, attachments, installed, companies,
                         performed, inflight>>

ParamWrite ==
    \E env \in Envs, self \in SUBSET DOMAIN params, vals \in WriteVals :
        LET r == ConfigWrite(params, env, self, vals)
        IN  /\ self # {}
            /\ Cardinality(self) <= MaxBatch
            /\ params' = r.tbl
            /\ last' = [op |-> "config_write", env |-> env, err |-> r.err]
            /\ UNCHANGED <<cacheRows, today, users, mails, attachments, installed, companies,
                         performed, inflight>>

ParamUnlink ==
    \E env \in Envs, self \in SUBSET DOMAIN params :
        LET r == ConfigUnlink(params, env, self)
        IN  /\ self # {}
            /\ Cardinality(self) <= MaxBatch
            /\ params' = r.tbl
            /\ last' = [op |-> "config_unlink", env |-> env, err |-> r.err]
            /\ UNCHANGED <<cacheRows, today, users, mails, attachments, installed, companies,
                         performed, inflight>>

\* config.set_param(key, value) called by some user
ParamSet ==
    \E env \in Envs, key \in ParamKeys, value \in ParamValues :
        LET r == set_param(params, env, key, value)
        IN  /\ params' = r.tbl
            /\ last' = [op |-> "config_set_param", env |-> env, err |-> r.err]
            /\ UNCHANGED <<cacheRows, today, users, mails, attachments, installed, companies,
                         performed, inflight>>

(***************************************************************************)
(* ir.attachment                                                           *)
(***************************************************************************)
ABSOLUTE_MAX_MB == 100

BytesPerMB == 1048576

\* vals.get('file_size', 0)
FileSize(vals) == IF "file_size" \in DOMAIN vals THEN vals.file_size ELSE 0

\* the size test written with >=
SizeExceeds_Inclusive(file_size, mb) == file_size >= mb * BytesPerMB

\* size_mb > mb, where size_mb = file_size / (1024 * 1024): the division by
\* 2^20 is exact in floating point, so the test is file_size > mb * 2^20
SizeExceeds(file_size, mb) == file_size > mb * BytesPerMB

\* the error the loop over vals_list raises for one file, "" when none
FileError(vals, max_mb) ==
    IF FileSize(vals) > 0
    THEN IF SizeExceeds(FileSize(vals), ABSOLUTE_MAX_MB) THEN "UserError: absolute"
         ELSE IF max_mb > 0 /\ SizeExceeds(FileSize(vals), max_mb) THEN "UserError: plan"
         ELSE ""
    ELSE ""

\* the error of the first file that raises
RECURSIVE FilesError(_, _, _)
FilesError(vals_list, max_mb, i) ==
    IF i > Len(vals_list) THEN ""
    ELSE IF FileError(vals_list[i], max_mb) # "" THEN FileError(vals_list[i], max_mb)
    ELSE FilesError(vals_list, max_mb, i + 1)

\* the try block asking the resolver on every call, whatever the parameter holds
AttachmentCheck_AlwaysResolves(tbl, rows, env, vals_list, resp, now, writeOk) ==
    LET r == get_plan_limits(rows, resp, now, writeOk)
        max_mb == Get(r.ret, "max_file_size_mb", 20)
        sp == set_param(tbl, env, "saas.plan.file_size_limit", Str(max_mb))
    IN  IF ~IsDict(r.ret)
        THEN [err |-> "", failed |-> TRUE, tbl |-> tbl, rows |-> r.rows]
        ELSE IF max_mb > 0
             THEN IF sp.err # ""
                  THEN [err |-> "UserError: Accion no permitida", failed |-> FALSE,
                        tbl |-> tbl, rows |-> r.rows]
                  ELSE [err |-> FilesError(vals_list, max_mb, 1), failed |-> FALSE,
                        tbl |-> sp.tbl, rows |-> r.rows]
        ELSE [err |-> FilesError(vals_list, max_mb, 1), failed |-> FALSE,
              tbl |-> tbl, rows |-> r.rows]

\* the try block of IrAttachment.create: the error it raises ("" when none),
\* whether it ended in the generic except branch, and the tables afterwards
AttachmentCheck(tbl, rows, env, vals_list, resp, now, writeOk) ==
    LET max_mb_param == get_param(tbl, "saas.plan.file_size_limit", "")
        r == get_plan_limits(rows, resp, now, writeOk)
        max_mb == Get(r.ret, "max_file_size_mb", 20)
        sp == set_param(tbl, env, "saas.plan.file_size_limit", Str(max_mb))
    IN  IF max_mb_param # ""
        THEN IF IntParse(max_mb_param).ok
             THEN [err |-> FilesError(vals_list, IntParse(max_mb_param).val, 1),
                   failed |-> FALSE, tbl |-> tbl, rows |-> rows]
             ELSE [err |-> "", failed |-> TRUE, tbl |-> tbl, rows |-> rows]
        ELSE IF ~IsDict(r.ret)
             THEN [err |-> "", failed |-> TRUE, tbl |-> tbl, rows |-> r.rows]
        ELSE IF max_mb > 0
             THEN IF sp.err # ""
                  THEN [err |-> "UserError: Accion no permitida", failed |-> FALSE,
                        tbl |-> tbl, rows |-> r.rows]
                  ELSE [err |-> FilesError(vals_list, max_mb, 1), failed |-> FALSE,
                        tbl |-> sp.tbl, rows |-> r.rows]
        ELSE [err |-> FilesError(vals_list, max_mb, 1), failed |-> FALSE,
              tbl |-> tbl, rows |-> r.rows]

FileSizes == {1024, 6 * BytesPerMB, 100 * BytesPerMB + 1}

FileVals == {[file_size |-> n] : n \in FileSizes}

\* the file sizes of a batch
BatchSizes(vals_list) == {FileSize(vals_list[i]) : i \in 1..Len(vals_list)}

\* ir.attachment create(vals_list) by the user of env while the licensing
\* server answers resp.  A UserError aborts the request and its transaction
\* is rolled back; otherwise super().create stores the files.
AttachmentCreateWith(env, vals_list, resp, writeOk) ==
    LET c == AttachmentCheck(params, cacheRows, env, vals_list, resp, today, writeOk)
    IN  /\ IF c.err # ""
           THEN UNCHANGED <<params, cacheRows, attachments>>
           ELSE /\ params' = c.tbl
                /\ cacheRows' = c.rows
                /\ attachments' = attachments \cup BatchSizes(vals_list)
        /\ last' = [op |-> "attachment_create", env |-> env,
                    sizes |-> BatchSizes(vals_list),
                    err |-> c.err, failed |-> c.failed]
        /\ UNCHANGED <<today, users, mails, installed, companies, performed, inflight>>

\* create(vals_list) with the entries of vals_list drawn from vals
AttachmentCreateOn(vals) ==
    \E env \in GuardEnvs, vals_list \in SeqsUpTo(vals, MaxBatch),
       resp \in GuardResponses, writeOk \in GuardWriteOk :
        AttachmentCreateWith(env, vals_list, resp, writeOk)

AttachmentCreate == AttachmentCreateOn(FileVals)

InitFiles ==
    /\ cacheRows = <<>>
    /\ today = 1
    /\ params = <<>>
    /\ users = <<>>
    /\ mails = 0
    /\ attachments = {}
    /\ installed = {"base", "mail", "saas_plan_enforcer"}
    /\ companies = {[name |-> "Main", active |-> TRUE]}
    /\ performed = {}
    /\ inflight = <<>>
    /\ last = [op |-> "init"]

NextFiles == AttachmentCreate \/ ParamSet \/ ParamUnlink

SpecFiles == InitFiles /\ [][NextFiles]_vars

NextParams == ParamCreate \/ ParamWrite \/ ParamUnlink \/ ParamSet

SpecParams == InitFiles /\ [][NextParams]_vars

(***************************************************************************)
(* The attachment guard at the absolute ceiling                            *)
(***************************************************************************)
\* 99.9 MB in whole bytes, exactly 100 MB, one byte more
CeilingSizes == {(999 * BytesPerMB) \div 10, 100 * BytesPerMB, 100 * BytesPerMB + 1}

CeilingVals == {[file_size |-> n] : n \in CeilingSizes}

NextCeiling == AttachmentCreateOn(CeilingVals) \/ NextDay

SpecCeiling == InitFiles /\ [][NextCeiling]_vars

\* C14: an attachment of exactly 100 MB (104857600 bytes) is rejected, and an
\* attachment of 99.9 MB is not rejected by the absolute ceiling.
C14_ExactCeilingRejected ==
    (last.op = "attachment_create" /\ ~last.failed)
        => /\ (100 * 1024 * 1024) \in last.sizes => last.err # ""
           /\ last.sizes = {(999 * 1024 * 1024) \div 10} => last.err # "UserError: absolute"

\* C14 as the code has it: the absolute ceiling rejects a batch only for a
\* file of more than 104857600 bytes, so a file of exactly 100 MB and one of
\* 99.9 MB pass it; when the check runs to its end, a batch with a file of
\* more than 104857600 bytes is rejected.
C14_CeilingIsStrict ==
    last.op = "attachment_create"
        => /\ last.err = "UserError: absolute"
                => \E size \in last.sizes : size > 100 * 1024 * 1024
           /\ (~last.failed /\ last.err # "UserError: Accion no permitida"
                 /\ \E size \in last.sizes : size > 100 * 1024 * 1024)
                => last.err \in {"UserError: absolute", "UserError: plan"}

\* C14 witness: under a plan without file limit a file of exactly 100 MB was
\* stored
C14_Witness ==
    /\ last.op = "attachment_create"
    /\ last.sizes = {100 * 1024 * 1024}
    /\ ~last.failed
    /\ last.err = ""
    /\ (100 * 1024 * 1024) \in attachments

(***************************************************************************)
(* The plan limit the attachment guard applies                             *)
(***************************************************************************)
PlanLimitVals == {[file_size |-> 2 * BytesPerMB], [file_size |-> 6 * BytesPerMB]}

NextPlanLimit == AttachmentCreateOn(PlanLimitVals)

SpecPlanLimit == InitFiles /\ [][NextPlanLimit]_vars

\* max_file_size_mb of the limits the resolver returns for resp now
ResolvedFileLimit(resp) ==
    Get(get_plan_limits(cacheRows, resp, today, TRUE).ret, "max_file_size_mb", 20)

\* some file of the batch is larger than limit MB, and no file up to it is
\* above the absolute ceiling
ExceedsPlanLimit(vals_list, limit) ==
    /\ limit > 0
    /\ \E i \in 1..Len(vals_list) :
          /\ FileSize(vals_list[i]) > limit * 1024 * 1024
          /\ \A j \in 1..i : FileSize(vals_list[j]) <= 100 * 1024 * 1024

\* C15: a create is rejected for the plan limit if and only if a file exceeds
\* the max_file_size_mb the resolver returns at the time of that create (the
\* creates whose check is cut short by an error are left aside).
C15_PlanLimitIsResolvedLimit ==
    [][\A vals_list \in SeqsUpTo(PlanLimitVals, MaxBatch), resp \in GuardResponses :
          (/\ last'.op = "attachment_create"
           /\ last'.sizes = BatchSizes(vals_list)
           /\ ~last'.failed
           /\ last'.err # "UserError: Accion no permitida"
           /\ IsDict(get_plan_limits(cacheRows, resp, today, TRUE).ret)
           /\ AttachmentCreateWith(last'.env, vals_list, resp, TRUE))
              => (last'.err = "UserError: plan"
                    <=> ExceedsPlanLimit(vals_list, ResolvedFileLimit(resp)))]_vars

\* C15 as the code has it: while saas.plan.file_size_limit holds a number the
\* guard applies that number and does not call the resolver; only without
\* the parameter does it apply the max_file_size_mb the resolver returns.
C15_PlanLimitIsStoredParameter ==
    [][\A vals_list \in SeqsUpTo(PlanLimitVals, MaxBatch), resp \in GuardResponses :
          (/\ last'.op = "attachment_create"
           /\ last'.sizes = BatchSizes(vals_list)
           /\ AttachmentCreateWith(last'.env, vals_list, resp, TRUE))
              => LET stored == get_param(params, "saas.plan.file_size_limit", "")
                 IN  /\ (stored # "" /\ IntParse(stored).ok)
                         => /\ last'.err = "UserError: plan"
                                  <=> ExceedsPlanLimit(vals_list, IntParse(stored).val)
                            /\ cacheRows' = cacheRows
                     /\ (/\ stored = ""
                          /\ IsDict(get_plan_limits(cacheRows, resp, today, TRUE).ret)
                          /\ last'.err # "UserError: Accion no permitida")
                         => (last'.err = "UserError: plan"
                               <=> ExceedsPlanLimit(vals_list, ResolvedFileLimit(resp)))]_vars

\* C15 witness: with the parameter holding 5, a 6 MB file was rejected for
\* the plan limit
C15_Witness ==
    /\ last.op = "attachment_create"
    /\ last.err = "UserError: plan"
    /\ last.sizes = {6 * 1024 * 1024}
    /\ get_param(params, "saas.plan.file_size_limit", "") = "5"

(***************************************************************************)
(* The nightly synchronisation of the plan limits                          *)
(***************************************************************************)
\* the scheduler runs the job as its own user, in a plain context, with no
\* module loading on the call stack
CronEnv == [login |-> "__system__", context |-> PlainContext]

\* the try block of _cron_sync_plan_limits: the tables afterwards.  An
\* exception anywhere ends the block and is logged; what was stored before it
\* stays.
SyncPlanLimits(tbl, rows, resp, now, writeOk) ==
    LET r == get_plan_limits(rows, resp, now, writeOk)
        max_mb == Get(r.ret, "max_file_size_mb", 20)
        sp1 == set_param(tbl, CronEnv, "saas.plan.file_size_limit", Str(max_mb))
        sp2 == set_param(sp1.tbl, CronEnv, "web.max_file_upload_size",
                         Str(max_mb * 1024 * 1024))
        t2 == IF max_mb > 0 THEN sp2 ELSE sp1
        sp3 == set_param(t2.tbl, CronEnv, "saas.plan.limits_last_sync", Str(now))
    IN  IF ~IsDict(r.ret)
        THEN [tbl |-> tbl, rows |-> r.rows, limits |-> r.ret, failed |-> TRUE]
        ELSE IF sp1.err # ""
        THEN [tbl |-> tbl, rows |-> r.rows, limits |-> r.ret, failed |-> TRUE]
        ELSE IF t2.err # ""
        THEN [tbl |-> sp1.tbl, rows |-> r.rows, limits |-> r.ret, failed |-> TRUE]
        ELSE [tbl |-> sp3.tbl, rows |-> r.rows, limits |-> r.ret, failed |-> sp3.err # ""]

\* the cron job _cron_sync_plan_limits
CronSyncPlanLimits ==
    \E resp \in GuardResponses, writeOk \in GuardWriteOk :
        LET c == SyncPlanLimits(params, cacheRows, resp, today, writeOk)
        IN  /\ params' = c.tbl
            /\ cacheRows' = c.rows
            /\ last' = [op |-> "_cron_sync_plan_limits", limits |-> c.limits,
                        failed |-> c.failed]
            /\ UNCHANGED <<today, users, mails, attachments, installed, companies,
                           performed, inflight>>

NextSync == CronSyncPlanLimits \/ ParamSet \/ NextDay

SpecSync == InitFiles /\ [][NextSync]_vars

\* limits.get('max_file_size_mb', 20) of the limits an operation resolved
FileCapOf(l) == IF IsDict(l.limits) /\ "max_file_size_mb" \in DOMAIN l.limits.d
                THEN l.limits.d.max_file_size_mb ELSE 20

\* C24: after _cron_sync_plan_limits has run as the scheduler's user,
\* saas.plan.file_size_limit equals the max_file_size_mb of the limits just
\* resolved and, when that value is > 0, web.max_file_upload_size equals that
\* value times 1024 * 1024.
C24_SyncStoresResolvedFileLimit ==
    (last.op = "_cron_sync_plan_limits" /\ IsDict(last.limits))
        => /\ get_param(params, "saas.plan.file_size_limit", "") = Str(FileCapOf(last))
           /\ FileCapOf(last) > 0
                => get_param(params, "web.max_file_upload_size", "")
                       = Str(FileCapOf(last) * 1024 * 1024)

(***************************************************************************)
(* Properties of the attachment guard and of the protected parameters      *)
(***************************************************************************)
\* C7: every ir.attachment create containing a file larger than 100 MB is
\* rejected, whatever the plan limit, the resolver's answer and the stored
\* value of saas.plan.file_size_limit.
C7_AbsoluteCeilingAlwaysEnforced ==
    (last.op = "attachment_create"
        /\ \E size \in last.sizes : size > 100 * 1024 * 1024)
        => last.err # ""

\* the protected keys of the table, with their values
ProtectedPart(tbl) == [k \in DOMAIN tbl \cap PROTECTED_PARAMS |-> tbl[k]]

ConfigOps == {"config_create", "config_write", "config_unlink", "config_set_param"}

\* C8: no ir.config_parameter create, write or unlink performed by a user other
\* than '1028' outside installation/initialization contexts changes the set of
\* protected keys or their values.
C8_ProtectedParamsUnchanged ==
    [][(last'.op \in ConfigOps
          /\ last'.env.login # "1028"
          /\ last'.env.context = PlainContext)
        => ProtectedPart(params') = ProtectedPart(params)]_vars

GuardOps == {"attachment_create", "users_create", "users_write", "company_create",
             "mail_create", "button_install", "button_immediate_install"}

\* the errors by which a guard reports an exceeded limit
LimitErrors == {"UserError: absolute", "UserError: plan", "UserError: max_users",
                "UserError: max_companies", "UserError: max_external_emails_per_day",
                "UserError: blocked_modules"}

\* C10: a guard blocks an operation only when the resolved limit is exceeded;
\* any other failure inside its check is logged and the operation is permitted.
C10_GuardsBlockOnlyOnExceededLimit ==
    (last.op \in GuardOps /\ last.err # "") => last.err \in LimitErrors

(***************************************************************************)
(* res.users                                                               *)
(***************************************************************************)
MaxUserRows == 3

\* the rows of a bag that satisfy P
Filtered(bag, P(_)) == [r \in {x \in DOMAIN bag : P(x)} |-> bag[r]]

IsActiveInternal(u) == u.active /\ ~u.share

IsInactiveInternal(u) == ~u.active /\ ~u.share

\* search_count([('active', '=', True), ('share', '=', False)])
CountActiveInternal(tbl) == BagCardinality(Filtered(tbl, IsActiveInternal))

\* len([v for v in vals_list if not v.get('share', False)])
RECURSIVE CountInternalVals(_)
CountInternalVals(vals_list) ==
    IF vals_list = <<>> THEN 0
    ELSE (IF EnvGet(Head(vals_list), "share", FALSE) THEN 0 ELSE 1)
         + CountInternalVals(Tail(vals_list))

\* the rows super().create(vals_list) inserts
RECURSIVE CreatedUsers(_)
CreatedUsers(vals_list) ==
    IF vals_list = <<>> THEN EmptyBag
    ELSE SetToBag({[login |-> Head(vals_list).login,
                    active |-> EnvGet(Head(vals_list), "active", TRUE),
                    share |-> EnvGet(Head(vals_list), "share", FALSE)]})
         (+) CreatedUsers(Tail(vals_list))

\* the comparison of the user guard
OverUserLimit(current, added, max_users) == current + added > max_users

\* the try block of ResUsers.create without the test max_users > 0
UsersCreateCheck_NoSentinel(tbl, rows, vals_list, resp, now, writeOk) ==
    LET r == get_plan_limits(rows, resp, now, writeOk)
        max_users == Get(r.ret, "max_users", -1)
    IN  IF ~IsDict(r.ret)
        THEN [err |-> "", failed |-> TRUE, rows |-> r.rows, limits |-> r.ret]
        ELSE IF OverUserLimit(CountActiveInternal(tbl), CountInternalVals(vals_list),
                              max_users)
        THEN [err |-> "UserError: max_users", failed |-> FALSE, rows |-> r.rows,
              limits |-> r.ret]
        ELSE [err |-> "", failed |-> FALSE, rows |-> r.rows, limits |-> r.ret]

\* the try block of ResUsers.create
UsersCreateCheck(tbl, rows, vals_list, resp, now, writeOk) ==
    LET r == get_plan_limits(rows, resp, now, writeOk)
        max_users == Get(r.ret, "max_users", -1)
    IN  IF ~IsDict(r.ret)
        THEN [err |-> "", failed |-> TRUE, rows |-> r.rows, limits |-> r.ret]
        ELSE IF max_users > 0
                /\ OverUserLimit(CountActiveInternal(tbl), CountInternalVals(vals_list),
                                 max_users)
        THEN [err |-> "UserError: max_users", failed |-> FALSE, rows |-> r.rows,
              limits |-> r.ret]
        ELSE [err |-> "", failed |-> FALSE, rows |-> r.rows, limits |-> r.ret]

\* the try block of ResUsers.write for vals with active = True, on the records self
UsersWriteCheck(tbl, rows, self, resp, now, writeOk) ==
    LET r == get_plan_limits(rows, resp, now, writeOk)
        max_users == Get(r.ret, "max_users", -1)
        users_to_activate == Filtered(self, IsInactiveInternal)
    IN  IF ~IsDict(r.ret)
        THEN [err |-> "", failed |-> TRUE, rows |-> r.rows, limits |-> r.ret]
        ELSE IF max_users > 0 /\ users_to_activate # EmptyBag
                /\ OverUserLimit(CountActiveInternal(tbl),
                                 BagCardinality(users_to_activate), max_users)
        THEN [err |-> "UserError: max_users", failed |-> FALSE, rows |-> r.rows,
              limits |-> r.ret]
        ELSE [err |-> "", failed |-> FALSE, rows |-> r.rows, limits |-> r.ret]

\* the rows of bag with active set to v
WithActive(bag, v) ==
    [y \in {[x EXCEPT !.active = v] : x \in DOMAIN bag} |->
        CopiesIn([y EXCEPT !.active = TRUE], bag) + CopiesIn([y EXCEPT !.active = FALSE], bag)]

\* vals of a create: an internal user, a portal user, an archived internal user
UserVals == {[login |-> "ana@corp.example"],
             [login |-> "guest@ext.example", share |-> TRUE],
             [login |-> "old@corp.example", active |-> FALSE]}

NotCalled == [t |-> "not called"]

\* super().create(vals_list) of res.users refuses a login already taken
LoginTaken(tbl, vals_list) ==
    \/ \E i \in 1..Len(vals_list) : \E u \in DOMAIN tbl : u.login = vals_list[i].login
    \/ \E i, j \in 1..Len(vals_list) : i # j /\ vals_list[i].login = vals_list[j].login

\* res.users create(vals_list) with the entries of vals_list drawn from vals,
\* under the server answers resps
UsersCreateOn(vals, resps) ==
    \E vals_list \in SeqsUpTo(vals, MaxBatch),
       resp \in resps, writeOk \in GuardWriteOk :
        LET c == UsersCreateCheck(users, cacheRows, vals_list, resp, today, writeOk)
            err == IF c.err # "" THEN c.err
                   ELSE IF LoginTaken(users, vals_list) THEN "IntegrityError" ELSE ""
        IN  /\ IF err # ""
               THEN UNCHANGED <<users, cacheRows>>
               ELSE /\ BagCardinality(users) + Len(vals_list) <= MaxUserRows
                    /\ users' = users (+) CreatedUsers(vals_list)
                    /\ cacheRows' = c.rows
            /\ last' = [op |-> "users_create", vals_list |-> vals_list,
                        limits |-> c.limits, err |-> err, failed |-> c.failed]
            /\ UNCHANGED <<today, params, mails, attachments, installed, companies, performed, inflight>>

UsersCreate == UsersCreateOn(UserVals, GuardResponses)

\* res.users write(vals) with vals = {'active': True} or {'active': False},
\* under the server answers resps
UsersWriteOn(resps) ==
    \E self \in SubBag(users), active \in BOOLEAN,
       resp \in resps, writeOk \in GuardWriteOk :
        LET c == IF active
                 THEN UsersWriteCheck(users, cacheRows, self, resp, today, writeOk)
                 ELSE [err |-> "", failed |-> FALSE, rows |-> cacheRows,
                       limits |-> NotCalled]
        IN  /\ self # EmptyBag
            /\ BagCardinality(self) <= MaxBatch
            /\ IF c.err # ""
               THEN UNCHANGED <<users, cacheRows>>
               ELSE /\ users' = (users (-) self) (+) WithActive(self, active)
                    /\ cacheRows' = c.rows
            /\ last' = [op |-> "users_write", self |-> self, active |-> active,
                        limits |-> c.limits, err |-> c.err, failed |-> c.failed]
            /\ UNCHANGED <<today, params, mails, attachments, installed, companies, performed, inflight>>

UsersWrite == UsersWriteOn(GuardResponses)

InitUsers ==
    /\ cacheRows = <<>>
    /\ today = 1
    /\ params = <<>>
    /\ users = SetToBag({[login |-> "admin", active |-> TRUE, share |-> FALSE]})
    /\ mails = 0
    /\ attachments = {}
    /\ installed = {"base", "mail", "saas_plan_enforcer"}
    /\ companies = {[name |-> "Main", active |-> TRUE]}
    /\ performed = {}
    /\ inflight = <<>>
    /\ last = [op |-> "init"]

NextUsers == UsersCreate \/ UsersWrite

SpecUsers == InitUsers /\ [][NextUsers]_vars

\* the active internal users an operation adds when it goes through
AddedActiveInternal(l) ==
    IF l.op = "users_create"
    THEN Cardinality({i \in 1..Len(l.vals_list) :
                         /\ ~EnvGet(l.vals_list[i], "share", FALSE)
                         /\ EnvGet(l.vals_list[i], "active", TRUE)})
    ELSE IF l.active
         THEN BagCardinality(Filtered(l.self, IsInactiveInternal))
         ELSE 0

UserCapOf(l) == IF IsDict(l.limits) /\ "max_users" \in DOMAIN l.limits.d
                THEN l.limits.d.max_users ELSE -1

\* C5: with max_users resolved to L > 0 and at most L active internal users,
\* after a res.users create or write(active=True) the number of active
\* internal users does not exceed L; an operation that adds users and brings
\* the number to exactly L is permitted, and one that would bring it to L+1 is
\* rejected.
C5_UserCountNeverExceedsLimit ==
    [][(last'.op \in {"users_create", "users_write"}
          /\ (last'.op = "users_write" => last'.active)
          /\ UserCapOf(last') > 0
          /\ CountActiveInternal(users) <= UserCapOf(last'))
        => /\ CountActiveInternal(users') <= UserCapOf(last')
           /\ (AddedActiveInternal(last') >= 1
                 /\ (last'.op = "users_create" => ~LoginTaken(users, last'.vals_list))
                 /\ CountActiveInternal(users) + AddedActiveInternal(last')
                        = UserCapOf(last'))
                => last'.err # "UserError: max_users"
           /\ (CountActiveInternal(users) + AddedActiveInternal(last')
                        = UserCapOf(last') + 1)
                => last'.err = "UserError: max_users"]_vars

\* C26: a res.users create batch consisting solely of portal/share users is
\* never rejected by the user-count guard, whatever max_users and the
\* current number of active internal users.
C26_PortalOnlyBatchNeverRejected ==
    (last.op = "users_create"
        /\ \A i \in 1..Len(last.vals_list) : EnvGet(last.vals_list[i], "share", FALSE))
        => last.err # "UserError: max_users"

(***************************************************************************)
(* mail.mail                                                               *)
(***************************************************************************)
MaxMails == 2

\* the index of the first c in s at or after i, 0 when there is none
RECURSIVE IndexFrom(_, _, _)
IndexFrom(s, c, i) ==
    IF i > Len(s) THEN 0
    ELSE IF CharAt(s, i) = c THEN i
    ELSE IndexFrom(s, c, i + 1)

\* '@' in s
HasAt(s) == IndexFrom(s, "@", 1) # 0

\* s.split('@')[1], for s with an '@'
AfterAt(s) ==
    LET a == IndexFrom(s, "@", 1)
        b == IndexFrom(s, "@", a + 1)
    IN  SubSeq(s, a + 1, IF b = 0 THEN Len(s) ELSE b - 1)

\* self.env.company.email
CompanyEmail == "info@corp.example"

\* company_domain.split('@')[1], when the company's email has an '@'
InternalDomain == IF HasAt(CompanyEmail) THEN AfterAt(CompanyEmail) ELSE ""

\* _is_internal_email; the search on res.users sees the active users only
_is_internal_email(email_to, tbl) ==
    \/ email_to = ""
    \/ \E u \in DOMAIN tbl : u.active /\ u.login = email_to
    \/ /\ CompanyEmail # "" /\ HasAt(CompanyEmail)
       /\ HasAt(email_to)
       /\ AfterAt(email_to) = InternalDomain

\* len([v for v in vals_list if v.get('email_to') and not _is_internal_email(...)])
RECURSIVE CountExternal(_, _)
CountExternal(vals_list, tbl) ==
    IF vals_list = <<>> THEN 0
    ELSE (IF EnvGet(Head(vals_list), "email_to", "") # ""
             /\ ~_is_internal_email(Head(vals_list).email_to, tbl)
          THEN 1 ELSE 0)
         + CountExternal(Tail(vals_list), tbl)

\* str(fields.Date.today())
DateStr(d) == "2024-01-0" \o Str(d)

TodayKey(d) == "saas.email_counter." \o DateStr(d)

\* the comparison of the email guard written with >=
OverEmailLimit_OffByOne(new_total, max_emails) == new_total >= max_emails

\* the comparison of the email guard
OverEmailLimit(new_total, max_emails) == new_total > max_emails

SudoEnv == [login |-> "admin", context |-> PlainContext]

\* the try block keeping one counter for all days
MailCheck_SingleCounter(tbl, rows, usersTbl, vals_list, resp, now, writeOk) ==
    LET r == get_plan_limits(rows, resp, now, writeOk)
        max_emails == Get(r.ret, "max_external_emails_per_day", -1)
        external_emails_count == CountExternal(vals_list, usersTbl)
        today_key == "saas.email_counter"
        current_count == IntParse(get_param(tbl, today_key, "0"))
        new_total == current_count.val + external_emails_count
        sp == set_param(tbl, SudoEnv, today_key, Str(new_total))
    IN  IF ~IsDict(r.ret)
        THEN [err |-> "", failed |-> TRUE, tbl |-> tbl, rows |-> r.rows, limits |-> r.ret]
        ELSE IF max_emails > 0 /\ external_emails_count > 0
        THEN IF OverEmailLimit(new_total, max_emails)
             THEN [err |-> "UserError: max_external_emails_per_day", failed |-> FALSE,
                   tbl |-> tbl, rows |-> r.rows, limits |-> r.ret]
             ELSE [err |-> sp.err, failed |-> FALSE, tbl |-> sp.tbl, rows |-> r.rows,
                   limits |-> r.ret]
        ELSE [err |-> "", failed |-> FALSE, tbl |-> tbl, rows |-> r.rows, limits |-> r.ret]

\* the try block of MailMail.create
MailCheck(tbl, rows, usersTbl, vals_list, resp, now, writeOk) ==
    LET r == get_plan_limits(rows, resp, now, writeOk)
        max_emails == Get(r.ret, "max_external_emails_per_day", -1)
        external_emails_count == CountExternal(vals_list, usersTbl)
        today_key == TodayKey(now)
        current_count == IntParse(get_param(tbl, today_key, "0"))
        new_total == current_count.val + external_emails_count
        sp == set_param(tbl, SudoEnv, today_key, Str(new_total))
    IN  IF ~IsDict(r.ret)
        THEN [err |-> "", failed |-> TRUE, tbl |-> tbl, rows |-> r.rows, limits |-> r.ret]
        ELSE IF max_emails > 0 /\ external_emails_count > 0
        THEN IF ~current_count.ok
             THEN [err |-> "", failed |-> TRUE, tbl |-> tbl, rows |-> r.rows,
                   limits |-> r.ret]
             ELSE IF OverEmailLimit(new_total, max_emails)
             THEN [err |-> "UserError: max_external_emails_per_day", failed |-> FALSE,
                   tbl |-> tbl, rows |-> r.rows, limits |-> r.ret]
             ELSE [err |-> sp.err, failed |-> FALSE, tbl |-> sp.tbl, rows |-> r.rows,
                   limits |-> r.ret]
        ELSE [err |-> "", failed |-> FALSE, tbl |-> tbl, rows |-> r.rows, limits |-> r.ret]

\* vals of a create: a recipient of the company's domain, the login of a user,
\* an outside recipient, no recipient
MailVals == <<[email_to |-> "zoe@corp.example"],
              [email_to |-> "bob@partner.example"],
              [email_to |-> "eve@other.example"],
              [subject |-> "draft"]>>

\* the batches of at most n entries of vals; the guard counts the entries of
\* vals_list and super().create stores them all, whatever their order, so a
\* batch is listed in one order only
Batches(vals, n) ==
    UNION {{[i \in 1..k |-> vals[g[i]]] :
               g \in {f \in [1..k -> DOMAIN vals] : \A i \in 1..(k - 1) : f[i] <= f[i + 1]}} :
           k \in 1..n}

\* create(vals_list) storing the first mail of a batch the guard rejects
MailCreateOn_StoresFirst(vals, resps) ==
    \E vals_list \in Batches(vals, MaxBatch),
       resp \in resps, writeOk \in GuardWriteOk :
        LET c == MailCheck(params, cacheRows, users, vals_list, resp, today, writeOk)
        IN  /\ IF c.err # ""
               THEN /\ mails' = mails + 1
                    /\ UNCHANGED <<params, cacheRows>>
               ELSE /\ mails + Len(vals_list) <= MaxMails
                    /\ mails' = mails + Len(vals_list)
                    /\ params' = c.tbl
                    /\ cacheRows' = c.rows
            /\ last' = [op |-> "mail_create", vals_list |-> vals_list,
                        limits |-> c.limits, err |-> c.err, failed |-> c.failed]
            /\ UNCHANGED <<today, users, attachments, installed, companies, performed,
                           inflight>>

\* mail.mail create(vals_list) with the entries of vals_list drawn from vals,
\* under the server answers resps
MailCreateOn(vals, resps) ==
    \E vals_list \in Batches(vals, MaxBatch),
       resp \in resps, writeOk \in GuardWriteOk :
        LET c == MailCheck(params, cacheRows, users, vals_list, resp, today, writeOk)
        IN  /\ IF c.err # ""
               THEN UNCHANGED <<params, cacheRows, mails>>
               ELSE /\ mails + Len(vals_list) <= MaxMails
                    /\ mails' = mails + Len(vals_list)
                    /\ params' = c.tbl
                    /\ cacheRows' = c.rows
            /\ last' = [op |-> "mail_create", vals_list |-> vals_list,
                        limits |-> c.limits, err |-> c.err, failed |-> c.failed]
            /\ UNCHANGED <<today, users, attachments, installed, companies, performed, inflight>>

MailCreate == MailCreateOn(MailVals, GuardResponses)

InitMail ==
    /\ cacheRows = <<>>
    /\ today = 1
    /\ params = <<>>
    /\ users = SetToBag({[login |-> "admin", active |-> TRUE, share |-> FALSE],
                         [login |-> "bob@partner.example", active |-> TRUE, share |-> FALSE]})
    /\ mails = 0
    /\ attachments = {}
    /\ installed = {"base", "mail", "saas_plan_enforcer"}
    /\ companies = {[name |-> "Main", active |-> TRUE]}
    /\ performed = {}
    /\ inflight = <<>>
    /\ last = [op |-> "init"]

NextMail == MailCreate \/ NextDay

SpecMail == InitMail /\ [][NextMail]_vars

\* the recipients outside the company's domain and the user directory
ExternalRecipients == {"eve@other.example"}

\* the external emails of a batch
ExternalIn(vals_list) ==
    Cardinality({i \in 1..Len(vals_list) :
                    /\ "email_to" \in DOMAIN vals_list[i]
                    /\ vals_list[i].email_to \in ExternalRecipients})

\* the value of the counter of day d, 0 when there is no entry
Counter(tbl, d) ==
    IF TodayKey(d) \in DOMAIN tbl THEN IntParse(tbl[TodayKey(d)]).val ELSE 0

EmailCapOf(l) == IF IsDict(l.limits) /\ "max_external_emails_per_day" \in DOMAIN l.limits.d
                 THEN l.limits.d.max_external_emails_per_day ELSE -1

CounterPattern == "saas.email_counter."

\* key LIKE '%saas.email_counter.%%'
KeyLikeCounter(key) ==
    \E i \in 1..(Len(key) - Len(CounterPattern) + 1) :
        \A j \in 1..Len(CounterPattern) :
            \/ CharAt(CounterPattern, j) = "_"
            \/ CharAt(CounterPattern, j) = CharAt(key, i + j - 1)

\* the try block of _cron_cleanup_old_email_counters: the table afterwards
CleanupCounters(tbl, now) ==
    LET today_key == TodayKey(now)
        all_counters == {k \in DOMAIN tbl : KeyLikeCounter(k)}
        old_counters == {k \in all_counters : k # today_key}
        r == ConfigUnlink(tbl, SudoEnv, old_counters)
    IN  IF old_counters # {} /\ r.err = "" THEN r.tbl ELSE tbl

\* the cron job _cron_cleanup_old_email_counters
CronCleanup ==
    /\ params' = CleanupCounters(params, today)
    /\ last' = [op |-> "_cron_cleanup_old_email_counters"]
    /\ UNCHANGED <<cacheRows, today, users, mails, attachments, installed, companies,
                   performed, inflight>>

\* parameters an administrator has stored next to the counters
StoredNotes == [k \in {"x.note", "legacy.saas.email_counter.total"} |-> "7"]

InitRollover ==
    /\ cacheRows = <<>>
    /\ today = 1
    /\ params = StoredNotes
    /\ users = SetToBag({[login |-> "admin", active |-> TRUE, share |-> FALSE]})
    /\ mails = 0
    /\ attachments = {}
    /\ installed = {"base", "mail", "saas_plan_enforcer"}
    /\ companies = {[name |-> "Main", active |-> TRUE]}
    /\ performed = {}
    /\ inflight = <<>>
    /\ last = [op |-> "init"]

RolloverVals == <<[email_to |-> "zoe@corp.example"], [email_to |-> "eve@other.example"]>>

NextRollover == MailCreateOn(RolloverVals, GuardResponses) \/ NextDay \/ CronCleanup

SpecRollover == InitRollover /\ [][NextRollover]_vars

\* the days of the model
Days == 1..MaxDay

\* C17: the quota check of a batch created on day D reads and updates only
\* the counter keyed to D: with a limit L > 0 and k >= 1 external emails the
\* batch is rejected exactly when D's counter + k > L, D's counter grows by k
\* on admission, and every other entry is left as it was, whether or not the
\* cleanup has run.
C17_QuotaUsesOnlyTodaysCounter ==
    [][(last'.op = "mail_create"
          /\ EmailCapOf(last') > 0
          /\ ExternalIn(last'.vals_list) >= 1)
        => /\ (last'.err # "") <=>
                  (Counter(params, today) + ExternalIn(last'.vals_list) > EmailCapOf(last'))
           /\ Counter(params', today) =
                  IF last'.err = ""
                  THEN Counter(params, today) + ExternalIn(last'.vals_list)
                  ELSE Counter(params, today)
           /\ DOMAIN params' \ {TodayKey(today)} = DOMAIN params \ {TodayKey(today)}
           /\ \A k \in DOMAIN params \ {TodayKey(today)} : params'[k] = params[k]]_vars

\* C17 witness: the counter of day 1 stands at the limit 1, the cleanup has
\* not removed it, and on day 2 an external email was admitted
C17_Witness ==
    /\ last.op = "mail_create"
    /\ today = 2
    /\ EmailCapOf(last) = 1
    /\ TodayKey(1) \in DOMAIN params
    /\ Counter(params, 1) = 1
    /\ ExternalIn(last.vals_list) = 1
    /\ last.err = ""
    /\ Counter(params, 2) = 1

\* C18: after _cron_cleanup_old_email_counters no counter entry of a day
\* other than today exists, and today's counter entry and every parameter
\* that is not an email counter are left unchanged.
C18_CleanupKeepsTodayAndOtherParameters ==
    [][last'.op = "_cron_cleanup_old_email_counters"
        => /\ \A d \in Days : d # today => TodayKey(d) \notin DOMAIN params'
           /\ \A k \in DOMAIN params :
                 (k = TodayKey(today) \/ k \notin {TodayKey(d) : d \in Days})
                    => (k \in DOMAIN params' /\ params'[k] = params[k])]_vars

(***************************************************************************)
(* Internal recipients in the forms email_to takes                         *)
(***************************************************************************)
\* vals of a create: a bare address of the company's domain, the same
\* address with a display name, the login of a user, no recipient
FormVals == <<[email_to |-> "zoe@corp.example"],
              [email_to |-> "Zoe <zoe@corp.example>"],
              [email_to |-> "bob@partner.example"],
              [subject |-> "draft"]>>

NextMailForms == MailCreateOn(FormVals, GuardResponses) \/ NextDay

SpecMailForms == InitMail /\ [][NextMailForms]_vars

\* the recipients that belong to the company's domain corp.example or are
\* the login of a user
InternalRecipients == {"zoe@corp.example", "Zoe <zoe@corp.example>", "bob@partner.example"}

\* every entry of the batch has no recipient or an internal one
AllInternal(vals_list) ==
    \A i \in 1..Len(vals_list) :
        \/ "email_to" \notin DOMAIN vals_list[i]
        \/ vals_list[i].email_to = ""
        \/ vals_list[i].email_to \in InternalRecipients

\* C19: a mail.mail create batch in which every recipient is empty, belongs
\* to the company's own email domain or is the login of an existing user is
\* never rejected by the email guard and leaves today's counter unchanged.
C19_InternalEmailsExempt ==
    [][(last'.op = "mail_create" /\ AllInternal(last'.vals_list))
        => /\ last'.err = ""
           /\ Counter(params', today) = Counter(params, today)
           /\ (TodayKey(today) \in DOMAIN params') = (TodayKey(today) \in DOMAIN params)]_vars

(***************************************************************************)
(* ir.module.module                                                        *)
(***************************************************************************)
\* the catalogue: technical name -> dependencies_id
Dependencies ==
    [base |-> {},
     mail |-> {"base"},
     saas_plan_enforcer |-> {"base", "mail"},
     stock |-> {"base"},
     sale_stock |-> {"stock"},
     delivery |-> {"sale_stock"}]

ModuleNames == DOMAIN Dependencies

\* pattern.endswith('*')
EndsWithStar(pattern) == Len(pattern) >= 1 /\ CharAt(pattern, Len(pattern)) = "*"

\* the loop taking every pattern as a prefix, with or without its '*'
_is_module_blocked_PrefixAlways(module_name, blocked_list) ==
    \E i \in 1..Len(blocked_list) :
        LET pattern == blocked_list[i]
        IN  IF EndsWithStar(pattern)
            THEN StartsWith(module_name, SubSeq(pattern, 1, Len(pattern) - 1))
            ELSE StartsWith(module_name, pattern)

\* _is_module_blocked
_is_module_blocked(module_name, blocked_list) ==
    \E i \in 1..Len(blocked_list) :
        LET pattern == blocked_list[i]
        IN  IF EndsWithStar(pattern)
            THEN StartsWith(module_name, SubSeq(pattern, 1, Len(pattern) - 1))
            ELSE module_name = pattern

\* the try block of _validate_module_installation for one module
ValidateModule(module, limits) ==
    LET blocked_modules == Get(limits, "blocked_modules", <<>>)
    IN  IF ~IsDict(limits) THEN ""
        ELSE IF blocked_modules # <<>> /\ _is_module_blocked(module, blocked_modules)
        THEN "UserError: blocked_modules"
        ELSE IF \E dep \in Dependencies[module] : _is_module_blocked(dep, blocked_modules)
        THEN "UserError: blocked_modules"
        ELSE ""

\* for module in self: self._validate_module_installation(module); every
\* validation resolves the limits anew, the server answering the same
RECURSIVE ValidateAll(_, _, _, _, _)
ValidateAll(todo, rows, resp, now, writeOk) ==
    IF todo = {} THEN [err |-> "", rows |-> rows, limits |-> NotCalled]
    ELSE LET module == CHOOSE m \in todo : TRUE
             r == get_plan_limits(rows, resp, now, writeOk)
             e == ValidateModule(module, r.ret)
             rest == ValidateAll(todo \ {module}, r.rows, resp, now, writeOk)
         IN  IF e # "" THEN [err |-> e, rows |-> r.rows, limits |-> r.ret]
             ELSE [err |-> rest.err, rows |-> rest.rows, limits |-> r.ret]

\* the modules super().button_install() marks: self and all they depend on
RECURSIVE DependencyClosure(_)
DependencyClosure(ms) ==
    LET more == ms \cup UNION {Dependencies[m] : m \in ms}
    IN  IF more = ms THEN ms ELSE DependencyClosure(more)

\* button_install / button_immediate_install on the records self; the hook is
\* there while saas_plan_enforcer is installed
ButtonInstall ==
    \E op \in {"button_install", "button_immediate_install"},
       self \in SUBSET ModuleNames,
       resp \in GuardResponses, writeOk \in GuardWriteOk :
        LET c == ValidateAll(self, cacheRows, resp, today, writeOk)
        IN  /\ "saas_plan_enforcer" \in installed
            /\ self # {}
            /\ Cardinality(self) <= MaxBatch
            /\ IF c.err # ""
               THEN UNCHANGED <<installed, cacheRows>>
               ELSE /\ installed' = installed \cup DependencyClosure(self)
                    /\ cacheRows' = c.rows
            /\ last' = [op |-> op, self |-> self, limits |-> c.limits, err |-> c.err]
            /\ UNCHANGED <<today, params, users, mails, attachments, companies, performed, inflight>>

\* who may call button_immediate_uninstall
UninstallUsers ==
    {[login |-> "1028", name |-> "Soporte"],
     [login |-> "admin", name |-> "Administrator"],
     [login |-> "ines", name |-> "1028"]}

\* the loop of button_immediate_uninstall: the error it raises, "" when none
UninstallCheck(self, current_user) ==
    IF "saas_plan_enforcer" \in self
       /\ ~(current_user.login = "1028" \/ current_user.name = "1028")
    THEN "UserError: protected module"
    ELSE ""

\* button_immediate_uninstall on the records self; super() removes them and
\* the installed modules that depend on them
ButtonUninstall ==
    \E self \in SUBSET installed, current_user \in UninstallUsers :
        /\ "saas_plan_enforcer" \in installed
        /\ self # {}
        /\ Cardinality(self) <= MaxBatch
        /\ IF UninstallCheck(self, current_user) # ""
           THEN UNCHANGED installed
           ELSE installed' = {m \in installed : DependencyClosure({m}) \cap self = {}}
        /\ last' = [op |-> "button_immediate_uninstall", self |-> self,
                    user |-> current_user, err |-> UninstallCheck(self, current_user)]
        /\ UNCHANGED <<cacheRows, today, params, users, mails, attachments, companies,
                     performed, inflight>>

InitModules ==
    /\ cacheRows = <<>>
    /\ today = 1
    /\ params = <<>>
    /\ users = SetToBag({[login |-> "admin", active |-> TRUE, share |-> FALSE]})
    /\ mails = 0
    /\ attachments = {}
    /\ installed = {"base", "mail", "saas_plan_enforcer"}
    /\ companies = {[name |-> "Main", active |-> TRUE]}
    /\ performed = {}
    /\ inflight = <<>>
    /\ last = [op |-> "init"]

NextModules == ButtonInstall \/ ButtonUninstall

SpecModules == InitModules /\ [][NextModules]_vars

\* the dependencies of m at any depth
RECURSIVE TransitiveDependencies(_)
TransitiveDependencies(m) ==
    Dependencies[m] \cup UNION {TransitiveDependencies(d) : d \in Dependencies[m]}

BlockedListOf(l) == IF IsDict(l.limits) /\ "blocked_modules" \in DOMAIN l.limits.d
                    THEN l.limits.d.blocked_modules ELSE <<>>

\* C9: button_install and button_immediate_install reject a module whenever
\* its own technical name or any module of its transitive dependency closure
\* matches an entry of the resolved blocked_modules list.
C9_TransitiveDependenciesChecked ==
    (last.op \in {"button_install", "button_immediate_install"}
        /\ \E m \in last.self : \E d \in {m} \cup TransitiveDependencies(m) :
               _is_module_blocked(d, BlockedListOf(last)))
        => last.err # ""

\* C25: button_immediate_uninstall on a recordset containing
\* saas_plan_enforcer proceeds only if the current user's login is '1028';
\* for every other user it raises an error and no module of the recordset is
\* uninstalled.
C25_OnlySupportLoginUninstalls ==
    [][(last'.op = "button_immediate_uninstall"
          /\ "saas_plan_enforcer" \in last'.self
          /\ last'.user.login # "1028")
        => /\ last'.err # ""
           /\ installed' = installed]_vars

(***************************************************************************)
(* res.company                                                             *)
(***************************************************************************)
\* search_count([('active', '=', True)])
CountActiveCompanies(tbl) == Cardinality({c \in tbl : c.active})

\* the comparison of the company guard
OverCompanyLimit(current, added, max_companies) == current + added > max_companies

\* the try block of ResCompany.create
CompanyCheck(tbl, rows, vals_list, resp, now, writeOk) ==
    LET r == get_plan_limits(rows, resp, now, writeOk)
        max_companies == Get(r.ret, "max_companies", -1)
    IN  IF ~IsDict(r.ret)
        THEN [err |-> "", failed |-> TRUE, rows |-> r.rows, limits |-> r.ret]
        ELSE IF max_companies > 0
                /\ OverCompanyLimit(CountActiveCompanies(tbl), Len(vals_list), max_companies)
        THEN [err |-> "UserError: max_companies", failed |-> FALSE, rows |-> r.rows,
              limits |-> r.ret]
        ELSE [err |-> "", failed |-> FALSE, rows |-> r.rows, limits |-> r.ret]

\* the rows super().create(vals_list) inserts
CreatedCompanies(vals_list) ==
    {[name |-> vals_list[i].name, active |-> EnvGet(vals_list[i], "active", TRUE)] :
        i \in 1..Len(vals_list)}

\* super().create(vals_list) of res.company refuses a name already taken
NameTaken(tbl, vals_list) ==
    \/ \E i \in 1..Len(vals_list) : \E c \in tbl : c.name = vals_list[i].name
    \/ \E i, j \in 1..Len(vals_list) : i # j /\ vals_list[i].name = vals_list[j].name

\* vals of a create: two companies and an archived one
CompanyVals == <<[name |-> "Branch"], [name |-> "Outlet"],
                 [name |-> "Depot", active |-> FALSE]>>

\* what the licensing server answers while the company guard runs
CompanyResponses ==
    GuardResponses
    \cup {[status_code |-> 200,
           json |-> [success |-> TRUE, limits |-> PlanNoUserCap, plan_name |-> "Pro"]]}

\* res.company create(vals_list) with the entries of vals_list drawn from vals,
\* under the server answers resps
CompanyCreateOn(vals, resps) ==
    \E vals_list \in Batches(vals, MaxBatch),
       resp \in resps, writeOk \in GuardWriteOk :
        LET c == CompanyCheck(companies, cacheRows, vals_list, resp, today, writeOk)
            err == IF c.err # "" THEN c.err
                   ELSE IF NameTaken(companies, vals_list) THEN "IntegrityError" ELSE ""
        IN  /\ IF err # ""
               THEN UNCHANGED <<companies, cacheRows>>
               ELSE /\ companies' = companies \cup CreatedCompanies(vals_list)
                    /\ cacheRows' = c.rows
            /\ last' = [op |-> "company_create", vals_list |-> vals_list,
                        limits |-> c.limits, err |-> err, failed |-> c.failed]
            /\ UNCHANGED <<today, params, users, mails, attachments, installed, performed, inflight>>

CompanyCreate == CompanyCreateOn(CompanyVals, CompanyResponses)

InitCompanies ==
    /\ cacheRows = <<>>
    /\ today = 1
    /\ params = <<>>
    /\ users = SetToBag({[login |-> "admin", active |-> TRUE, share |-> FALSE]})
    /\ mails = 0
    /\ attachments = {}
    /\ installed = {"base", "mail", "saas_plan_enforcer"}
    /\ companies = {[name |-> "Main", active |-> TRUE]}
    /\ performed = {}
    /\ inflight = <<>>
    /\ last = [op |-> "init"]

NextCompanies == CompanyCreate \/ NextDay

SpecCompanies == InitCompanies /\ [][NextCompanies]_vars

\* the active companies a create adds when it goes through
AddedActiveCompanies(l) ==
    Cardinality({i \in 1..Len(l.vals_list) : EnvGet(l.vals_list[i], "active", TRUE)})

\* limits.get('max_companies', -1) of the limits an operation resolved
CompanyCapOf(l) == IF IsDict(l.limits) /\ "max_companies" \in DOMAIN l.limits.d
                   THEN l.limits.d.max_companies ELSE -1

\* C13: with max_companies resolved to L > 0 and at most L active companies,
\* after a res.company create the number of active companies does not exceed
\* L; a create that adds companies and brings the number to exactly L is
\* permitted, and one that would bring it to L+1 is rejected.
C13_CompanyCountNeverExceedsLimit ==
    [][(last'.op = "company_create"
          /\ CompanyCapOf(last') > 0
          /\ CountActiveCompanies(companies) <= CompanyCapOf(last'))
        => /\ CountActiveCompanies(companies') <= CompanyCapOf(last')
           /\ (AddedActiveCompanies(last') >= 1
                 /\ ~NameTaken(companies, last'.vals_list)
                 /\ CountActiveCompanies(companies) + AddedActiveCompanies(last')
                        = CompanyCapOf(last'))
                => last'.err # "UserError: max_companies"
           /\ (CountActiveCompanies(companies) + AddedActiveCompanies(last')
                        = CompanyCapOf(last') + 1)
                => last'.err = "UserError: max_companies"]_vars

(***************************************************************************)
(* The count guards under the unlimited plan                               *)
(***************************************************************************)
\* the licensing server answers the unlimited plan, or cannot be reached
SentinelResponses ==
    {[raises |-> "RequestException"],
     [status_code |-> 200,
      json |-> [success |-> TRUE, limits |-> PlanUnlimited, plan_name |-> "Pro"]]}

\* the operations the count guards watch, each with a small choice of vals
NextUnlimited ==
    \/ UsersCreateOn({[login |-> "ana@corp.example"], [login |-> "bea@corp.example"]},
                     SentinelResponses)
    \/ UsersWriteOn(SentinelResponses)
    \/ CompanyCreateOn(<<[name |-> "Branch"]>>, SentinelResponses)
    \/ MailCreateOn(<<[email_to |-> "eve@other.example"]>>, SentinelResponses)

SpecUnlimited == InitUsers /\ [][NextUnlimited]_vars

\* the limits an operation resolved hold -1 under key
SentinelResolved(l, key) ==
    /\ "limits" \in DOMAIN l
    /\ IsDict(l.limits)
    /\ key \in DOMAIN l.limits.d
    /\ l.limits.d[key] = -1

\* C12: when the limit a count guard resolved is the unlimited sentinel -1
\* (max_users, max_companies, max_external_emails_per_day), the guard does not
\* reject the create or reactivation, whatever the current count and the size
\* of the batch.
C12_UnlimitedSentinelNeverRejects ==
    /\ (last.op \in {"users_create", "users_write"} /\ SentinelResolved(last, "max_users"))
            => last.err \in {"", "IntegrityError"}
    /\ (last.op = "company_create" /\ SentinelResolved(last, "max_companies"))
            => last.err \in {"", "IntegrityError"}
    /\ (last.op = "mail_create" /\ SentinelResolved(last, "max_external_emails_per_day"))
            => last.err = ""

\* C12 witness: under max_users = -1 a batch of two internal users was created
\* on top of the users already there
C12_Witness ==
    /\ last.op = "users_create"
    /\ SentinelResolved(last, "max_users")
    /\ Len(last.vals_list) = 2
    /\ CountInternalVals(last.vals_list) = 2
    /\ last.err = ""
    /\ CountActiveInternal(users) >= 3

(***************************************************************************)
(* What a rejection leaves behind                                          *)
(***************************************************************************)
RejectResponses ==
    {[status_code |-> 200, json |-> [success |-> TRUE, limits |-> l, plan_name |-> "Pro"]] :
        l \in {PlanBasic, PlanSuspended}}

NextReject ==
    \/ UsersCreateOn({[login |-> "ana@corp.example"]}, RejectResponses)
    \/ UsersWriteOn(RejectResponses)
    \/ CompanyCreateOn(<<[name |-> "Branch"]>>, RejectResponses)
    \/ MailCreateOn(<<[email_to |-> "eve@other.example"]>>, RejectResponses)

SpecReject == InitUsers /\ [][NextReject]_vars

\* the errors the count guards raise for an exceeded limit
CountLimitErrors ==
    {"UserError: max_users", "UserError: max_companies",
     "UserError: max_external_emails_per_day"}

\* C27: when a guard rejects an operation for exceeding a limit the guarded
\* state is unchanged: a rejected mail.mail batch leaves today's counter and
\* the mails as they were, a rejected user or company create or reactivation
\* leaves the users and the companies as they were; no part of the batch is
\* admitted.
C27_RejectionChangesNothing ==
    [][(last'.op \in {"users_create", "users_write", "company_create", "mail_create"}
          /\ last'.err \in CountLimitErrors)
        => /\ users' = users
           /\ companies' = companies
           /\ mails' = mails
           /\ (TodayKey(today) \in DOMAIN params') = (TodayKey(today) \in DOMAIN params)
           /\ Counter(params', today) = Counter(params, today)]_vars

\* C27 witness: a batch of two external emails was rejected under a limit of
\* 1 with the counter still absent and no mail stored
C27_Witness ==
    /\ last.op = "mail_create"
    /\ last.err = "UserError: max_external_emails_per_day"
    /\ Len(last.vals_list) = 2
    /\ EmailCapOf(last) = 1
    /\ TodayKey(today) \notin DOMAIN params
    /\ mails = 0

(***************************************************************************)
(* The count guards under a limit of 0                                     *)
(***************************************************************************)
\* a plan without extra companies and without external emails
PlanZeroExtras ==
    PyDict([max_users |-> 2, max_companies |-> 0, max_file_size_mb |-> 5,
            max_external_emails_per_day |-> 0, blocked_modules |-> <<>>])

\* a plan that allows no user at all
PlanFrozen ==
    PyDict([max_users |-> 0, max_companies |-> 1, max_file_size_mb |-> 5,
            max_external_emails_per_day |-> 2, blocked_modules |-> <<>>])

ZeroResponses ==
    {[status_code |-> 200, json |-> [success |-> TRUE, limits |-> l, plan_name |-> "Pro"]] :
        l \in {PlanZeroExtras, PlanFrozen}}

NextZero ==
    \/ UsersCreateOn({[login |-> "ana@corp.example"]}, ZeroResponses)
    \/ UsersWriteOn(ZeroResponses)
    \/ CompanyCreateOn(<<[name |-> "Branch"]>>, ZeroResponses)
    \/ MailCreateOn(<<[email_to |-> "eve@other.example"]>>, ZeroResponses)

SpecZero == InitUsers /\ [][NextZero]_vars

\* C23: for every resolved limit other than the sentinel -1, 0 included, a
\* count guard enforces the value as a cap: an operation that adds users,
\* companies or external emails goes through only if the count afterwards
\* does not exceed the value.
C23_OnlySentinelIsUnbounded ==
    /\ (last.op \in {"users_create", "users_write"} /\ UserCapOf(last) # -1
          /\ AddedActiveInternal(last) >= 1 /\ last.err = "")
            => CountActiveInternal(users) <= UserCapOf(last)
    /\ (last.op = "company_create" /\ CompanyCapOf(last) # -1
          /\ AddedActiveCompanies(last) >= 1 /\ last.err = "")
            => CountActiveCompanies(companies) <= CompanyCapOf(last)
    /\ (last.op = "mail_create" /\ EmailCapOf(last) # -1
          /\ ExternalIn(last.vals_list) >= 1 /\ last.err = "")
            => Counter(params, today) <= EmailCapOf(last)

(***************************************************************************)
(* _is_module_blocked on its own                                           *)
(***************************************************************************)
MaxPatterns == 2

BlockedNames == {"stock", "stock_account", "stocked", "stoc", "sale_stock", ""}

BlockedPatterns == {"stock*", "stock", "stock_*", "*", "sale"}

BlockedLists == {<<>>} \cup SeqsUpTo(BlockedPatterns, MaxPatterns)

\* a call of _is_module_blocked(module_name, blocked_list)
IsModuleBlockedCall ==
    \E module_name \in BlockedNames, blocked_list \in BlockedLists :
        /\ last' = [op |-> "_is_module_blocked", module_name |-> module_name,
                    blocked_list |-> blocked_list,
                    ret |-> _is_module_blocked(module_name, blocked_list)]
        /\ UNCHANGED <<cacheRows, today, params, users, mails, attachments, installed,
                       companies, performed, inflight>>

SpecBlocked == InitModules /\ [][IsModuleBlockedCall]_vars

\* the pattern has no trailing '*' and is the name, or it is some prefix of
\* the name followed by '*'
PatternBlocks(pattern, name) ==
    \/ /\ pattern = name
       /\ \A k \in 0..Len(name) : pattern # SubSeq(name, 1, k) \o "*"
    \/ \E k \in 0..Len(name) : pattern = SubSeq(name, 1, k) \o "*"

\* C16: _is_module_blocked returns true exactly when some pattern of the list
\* equals the name (pattern without trailing '*') or ends in '*' and the name
\* starts with the rest of it; 'stock*' blocks stock, stock_account and
\* stocked, and the pair 'stock', 'stock_*' blocks stock and stock_account
\* but not stocked.
C16_BlockedIffExactOrPrefix ==
    last.op = "_is_module_blocked"
        => /\ last.ret <=> \E i \in 1..Len(last.blocked_list) :
                               PatternBlocks(last.blocked_list[i], last.module_name)
           /\ (last.blocked_list = <<"stock*">>
                  /\ last.module_name \in {"stock", "stock_account", "stocked"})
                 => last.ret
           /\ (last.blocked_list = <<"stock", "stock_*">>
                  /\ last.module_name \in {"stock", "stock_account"})
                 => last.ret
           /\ (last.blocked_list = <<"stock", "stock_*">> /\ last.module_name = "stocked")
                 => ~last.ret

\* C16 witness: the pair 'stock', 'stock_*' was asked about stocked and did
\* not block it
C16_Witness ==
    /\ last.op = "_is_module_blocked"
    /\ last.blocked_list = <<"stock", "stock_*">>
    /\ last.module_name = "stocked"
    /\ ~last.ret

(***************************************************************************)
(* The operational endpoints (controllers/module_operations.py)            *)
(***************************************************************************)
\* a string of a JSON request
PyStr(s) == [t |-> "str", s |-> s]

\* bool(secret_token) for None, a string or a JSON boolean
TokenTruthy(v) ==
    IF v.t = "None" THEN FALSE
    ELSE IF v.t = "str" THEN v.s # ""
    ELSE v.b

\* the comparison alone, without the two emptiness tests
_validate_secret_NoEmptyCheck(secret_token, tbl) ==
    secret_token = PyStr(get_param(tbl, "saas.operations.secret", ""))

\* _validate_secret
_validate_secret(secret_token, tbl) ==
    LET config_token == get_param(tbl, "saas.operations.secret", "")
    IN  IF ~TokenTruthy(secret_token) THEN FALSE
        ELSE IF config_token = "" THEN FALSE
        ELSE secret_token = PyStr(config_token)

\* what a request may carry as secret_token: nothing, an empty string, the
\* secret, a guess, the JSON value true
Tokens == {PyNone, PyStr(""), PyStr("s3cret"), PyStr("guess"), [t |-> "bool", b |-> TRUE]}

OperationSecrets == {"s3cret", "rotated"}

SupportEnv == [login |-> "1028", context |-> PlainContext]

\* the support user stores or removes saas.operations.secret
SecretSet ==
    \E value \in OperationSecrets \cup {""} :
        LET r == IF value = "" THEN ConfigUnlink(params, SupportEnv,
                                                 {"saas.operations.secret"} \cap DOMAIN params)
                 ELSE set_param(params, SupportEnv, "saas.operations.secret", value)
        IN  /\ params' = r.tbl
            /\ last' = [op |-> IF value = "" THEN "config_unlink" ELSE "config_set_param",
                        env |-> SupportEnv, err |-> r.err]
            /\ UNCHANGED <<cacheRows, today, users, mails, attachments, installed, companies,
                           performed, inflight>>

\* the response of an endpoint, what it ran, and the modules installed afterwards
Refused(error) == [success |-> FALSE, error |-> error, ran |-> {}, installed |-> installed]

\* POST /api/module/upgrade; raises says whether button_immediate_upgrade fails
UpgradeModule(module_name, secret_token, raises) ==
    IF ~_validate_secret(secret_token, params)
    THEN Refused("Unauthorized - Invalid secret token")
    ELSE IF module_name = "" THEN Refused("module_name is required")
    ELSE IF module_name \notin ModuleNames THEN Refused("not found")
    ELSE IF module_name \notin installed THEN Refused("not installed")
    ELSE [success |-> ~raises, error |-> IF raises THEN "Exception" ELSE "",
          ran |-> {"upgrade"}, installed |-> installed]

\* POST /api/module/install; complete says whether repo_url, branch and
\* module_name are all given, exists whether the repository is on disk, gitOk
\* whether git succeeds, returncode what odoo-bin returns
InstallModule(complete, module_name, secret_token, exists, gitOk, returncode) ==
    LET git == IF exists THEN "pull" ELSE "clone"
    IN  IF ~_validate_secret(secret_token, params)
        THEN Refused("Unauthorized - Invalid secret token")
        ELSE IF ~complete THEN Refused("repo_url, branch, and module_name are required")
        ELSE IF ~gitOk
        THEN [success |-> FALSE, error |-> "CalledProcessError", ran |-> {git},
              installed |-> installed]
        ELSE [success |-> returncode = 0,
              error |-> IF returncode = 0 THEN "" ELSE "stderr",
              ran |-> {git, "install"},
              installed |-> IF returncode = 0 /\ module_name \in ModuleNames
                            THEN installed \cup DependencyClosure({module_name})
                            ELSE installed]

\* POST /api/instance/restart; returncode what systemctl returns
RestartInstance(secret_token, returncode) ==
    IF ~_validate_secret(secret_token, params)
    THEN Refused("Unauthorized")
    ELSE [success |-> returncode = 0, error |-> IF returncode = 0 THEN "" ELSE "stderr",
          ran |-> {"restart"}, installed |-> installed]

\* a request to one of the three endpoints
EndpointRequest ==
    \E secret_token \in Tokens :
        \E r \in {[op |-> "upgrade_module", res |-> UpgradeModule(m, secret_token, x)] :
                      m \in {"", "mail", "stock", "ghost"}, x \in BOOLEAN}
               \cup {[op |-> "install_module",
                      res |-> InstallModule(c, m, secret_token, e, g, rc)] :
                      c \in BOOLEAN, m \in {"stock", "ghost"}, e \in BOOLEAN,
                      g \in BOOLEAN, rc \in {0, 1}}
               \cup {[op |-> "restart_instance", res |-> RestartInstance(secret_token, rc)] :
                      rc \in {0, 1}} :
            /\ performed' = performed \cup r.res.ran
            /\ installed' = r.res.installed
            /\ last' = [op |-> r.op, secret_token |-> secret_token,
                        success |-> r.res.success, error |-> r.res.error,
                        ran |-> r.res.ran]
            /\ UNCHANGED <<cacheRows, today, params, users, mails, attachments, companies,
                           inflight>>

NextOps == EndpointRequest \/ SecretSet

SpecOps == InitModules /\ [][NextOps]_vars

EndpointOps == {"upgrade_module", "install_module", "restart_instance"}

\* the configured secret, "" when none is configured
ConfiguredSecret ==
    IF "saas.operations.secret" \in DOMAIN params
    THEN params["saas.operations.secret"] ELSE ""

\* C20: no endpoint performs an upgrade, clone/pull, install or restart
\* unless the request's secret_token is non-empty and equals the configured
\* non-empty saas.operations.secret; with no secret configured every request
\* is refused.
C20_EndpointsNeedTheSecret ==
    [][last'.op \in EndpointOps
        => /\ (last'.ran # {} \/ performed' # performed \/ installed' # installed)
                 => /\ last'.secret_token.t = "str"
                    /\ last'.secret_token.s # ""
                    /\ ConfiguredSecret # ""
                    /\ last'.secret_token.s = ConfiguredSecret
           /\ ConfiguredSecret = ""
                 => /\ ~last'.success
                    /\ last'.error \in {"Unauthorized", "Unauthorized - Invalid secret token"}
                    /\ last'.ran = {}]_vars

\* C20 witness: a request carrying the configured secret restarted the instance
C20_Witness ==
    /\ last.op = "restart_instance"
    /\ last.secret_token = PyStr("s3cret")
    /\ ConfiguredSecret = "s3cret"
    /\ last.success
    /\ "restart" \in performed

(***************************************************************************)
(* The guards under the emergency limits                                   *)
(***************************************************************************)
\* C11: when the resolver returns the emergency limits, every guard enforces
\* a finite cap or a non-empty block list: the caps the user, company,
\* attachment and email guards read are positive and the block list the module
\* guard reads is not empty.
C11_EmergencyLimitsRestrictEveryGuard ==
    ("limits" \in DOMAIN last /\ last.limits = EmergencyConstant
        /\ (last.op = "mail_create" => ExternalIn(last.vals_list) >= 1))
        => /\ UserCapOf(last) > 0
           /\ CompanyCapOf(last) > 0
           /\ FileCapOf(last) > 0
           /\ EmailCapOf(last) > 0
           /\ BlockedListOf(last) # <<>>

====
